---- MODULE Spec2Model ----
(***************************************************************************)
(* pdf-watermark: placement geometry (app/draw.py, app/utils.py) and the   *)
(* composition of the watermark page onto a PDF (app/handler.py).          *)
(*                                                                         *)
(* Python floats are modelled as exact rationals <<numerator, denominator>>*)
(* in lowest terms with a positive denominator, so the arithmetic below is *)
(* the arithmetic of the source over the reals.  An optional value (None   *)
(* or a value v) is the empty tuple <<>> or the one-element tuple <<v>>.   *)
(* A text is a sequence of code points, a font name a sequence of          *)
(* one-character strings.                                                  *)
(***************************************************************************)
EXTENDS Integers, Sequences, FiniteSets, TLC

VARIABLES
    pc,                \* position of the running program
    files_options,     \* handler.py: the (input, output) pairs
    file_index,        \* handler.py:51 position of the loop over files_options
    disk,              \* file name -> PDF (a sequence of pages), <<>> if absent
    pdf_to_transform,  \* handler.py:20 pages of the input being transformed
    page_width,        \* handler.py:22
    page_height,       \* handler.py:23
    page_index,        \* handler.py:38 position of the loop over the pages
    pdf_writer,        \* handler.py:36 pages added to the writer so far
    rendered,          \* number of draw_watermarks calls of the current call
    written,           \* output names in the order they were written
    drawing_options,   \* DrawingOptions (text_font is assigned by draw.py)
    specific_options,  \* GridOptions, InsertOptions or something else
    system,            \* platform.system() and the fonts fc-list reports
    watermark,         \* the reportlab canvas of draw_watermarks
    call,              \* arguments of a direct call of a pure function
    ret                \* <<>> or <<value returned by that call>>

vars == <<pc, files_options, file_index, disk, pdf_to_transform, page_width,
          page_height, page_index, pdf_writer, rendered, written,
          drawing_options, specific_options, system, watermark, call, ret>>

\* ------------------------------------------------------------ bounds
MaxCoord == 3
MaxImage == 4
MaxBox == 4
MaxBoxes == 2
MaxDen == 4
MaxFonts == 2
MaxPages == 2
MaxFiles == 2

\* ------------------------------------------------------------ numbers
Abs(n) == IF n < 0 THEN -n ELSE n

RECURSIVE GCD(_, _)
GCD(a, b) == IF b = 0 THEN a ELSE GCD(b, a % b)

Rat(n, d) ==
    LET g == GCD(Abs(n), Abs(d))
        s == IF d < 0 THEN -1 ELSE 1
    IN  <<(s * n) \div g, (s * d) \div g>>

Num(n) == <<n, 1>>
Plus(a, b) == Rat(a[1] * b[2] + b[1] * a[2], a[2] * b[2])
Minus(a, b) == Rat(a[1] * b[2] - b[1] * a[2], a[2] * b[2])
Times(a, b) == Rat(a[1] * b[1], a[2] * b[2])
Over(a, b) == Rat(a[1] * b[2], a[2] * b[1])
Neg(a) == <<-a[1], a[2]>>
Less(a, b) == a[1] * b[2] < b[1] * a[2]
LessEq(a, b) == a[1] * b[2] <= b[1] * a[2]
Min(a, b) == IF Less(b, a) THEN b ELSE a

\* ------------------------------------------------------------ optionals
None == <<>>
Some(v) == <<v>>
Val(o) == o[1]

\* ------------------------------------------------------------ utils.py
\* The box fitting imported by draw.py as fit_image; utils.py holds it
\* inline in create_watermark_pdf.
\* Faulty variant: the height clamp does not rescale the width.
fit_image_unscaled_height(image_width, image_height, max_image_width, max_image_height, scale) ==
    LET w1 == IF Less(max_image_width, image_width) THEN max_image_width ELSE image_width
        h1 == IF Less(max_image_width, image_width)
              THEN Times(image_height, Over(max_image_width, image_width))
              ELSE image_height
        w2 == w1
        h2 == IF Less(max_image_height, h1) THEN max_image_height ELSE h1
    IN  <<Times(w2, scale), Times(h2, scale)>>

fit_image(image_width, image_height, max_image_width, max_image_height, scale) ==
    LET w1 == IF Less(max_image_width, image_width) THEN max_image_width ELSE image_width
        h1 == IF Less(max_image_width, image_width)
              THEN Times(image_height, Over(max_image_width, image_width))
              ELSE image_height
        w2 == IF Less(max_image_height, h1)
              THEN Times(w1, Over(max_image_height, h1))
              ELSE w1
        h2 == IF Less(max_image_height, h1) THEN max_image_height ELSE h1
    IN  <<Times(w2, scale), Times(h2, scale)>>

\* math.cos and math.sin of angle * pi / 180, at the angles where both are
\* integers.
Cos(angle) == CASE angle % 360 = 0 -> Num(1)
                [] angle % 360 = 90 -> Num(0)
                [] angle % 360 = 180 -> Num(-1)
                [] angle % 360 = 270 -> Num(0)

Sin(angle) == CASE angle % 360 = 0 -> Num(0)
                [] angle % 360 = 90 -> Num(1)
                [] angle % 360 = 180 -> Num(0)
                [] angle % 360 = 270 -> Num(-1)

rotation_matrix_of(angle) ==
    << <<Cos(angle), Neg(Sin(angle))>>,
       <<Sin(angle), Cos(angle)>> >>

Transpose(m) == << <<m[1][1], m[2][1]>>, <<m[1][2], m[2][2]>> >>

MatVec(m, v) ==
    << Plus(Times(m[1][1], v[1]), Times(m[1][2], v[2])),
       Plus(Times(m[2][1], v[1]), Times(m[2][2], v[2])) >>

\* Faulty variant: the matrix is applied without being transposed.
change_base_untransposed(x, y, rotation_matrix) ==
    MatVec(rotation_matrix, <<x, y>>)

change_base(x, y, rotation_matrix) ==
    LET new_coordinates == MatVec(Transpose(rotation_matrix), <<x, y>>)
    IN  <<new_coordinates[1], new_coordinates[2]>>

draw_centered_image(canvas, x, y, width, height, image) ==
    LET bottom_left_x == Minus(x, Over(width, Num(2)))
        bottom_left_y == Minus(y, Over(height, Num(2)))
    IN  [canvas EXCEPT !.calls = Append(@,
            [op |-> "drawImage", x |-> bottom_left_x, y |-> bottom_left_y,
             width |-> width, height |-> height, text |-> None])]

\* ------------------------------------------------------------ draw.py
\* Alignments of app.options, by the names draw.py compares against.
Alignments == {"LEFT", "RIGHT", "CENTER"}

\* reportlab's Canvas.stringWidth, abstracted: every glyph is as wide as
\* the font size.
stringWidth(text, fontName, fontSize) == Num(Len(text) * fontSize)

\* A canvas as draw_watermarks creates it.  calls are the drawing calls
\* issued on it; points are the layout points draw_one_watermark was
\* called with, in call order.
Canvas(file_name, width, height) ==
    [file_name |-> file_name, pagesize |-> <<width, height>>,
     font |-> None, rotation |-> None, registered |-> {}, printed |-> <<>>,
     calls |-> <<>>, points |-> <<>>, saved |-> FALSE, raised |-> "none"]

Raise(canvas, exception) == [canvas EXCEPT !.raised = exception]

\* Faulty variant: the image is drawn only when there is no text.
draw_one_watermark_text_only(wm, x, y, rotation_matrix, options, image_width, image_height) ==
    LET p == change_base(x, y, rotation_matrix)
        w1 == [wm EXCEPT !.points = Append(@, <<x, y>>)]
    IN  IF options.text /= None
        THEN [w1 EXCEPT !.calls = Append(@,
                [op |-> "drawCentredString", x |-> p[1], y |-> p[2],
                 width |-> Num(0), height |-> Num(0), text |-> options.text])]
        ELSE IF options.image /= None
             THEN draw_centered_image(w1, p[1], p[2], image_width, image_height,
                                      Val(options.image))
             ELSE w1

draw_one_watermark(wm, x, y, rotation_matrix, options, image_width, image_height) ==
    LET p == change_base(x, y, rotation_matrix)
        x_prime == p[1]
        y_prime == p[2]
        w1 == [wm EXCEPT !.points = Append(@, <<x, y>>)]
        w2 == IF options.text /= None
              THEN [w1 EXCEPT !.calls = Append(@,
                      [op |-> "drawCentredString", x |-> x_prime, y |-> y_prime,
                       width |-> Num(0), height |-> Num(0), text |-> options.text])]
              ELSE w1
    IN  IF options.image /= None
        THEN draw_centered_image(w2, x_prime, y_prime, image_width, image_height,
                                 Val(options.image))
        ELSE w2

max_image_height_of(options, height) ==
    Min(Times(Times(Num(2), options.y), height),
        Times(Num(2), Times(Times(Num(2), Minus(Num(1), options.y)), height)))

\* draw.py:69-83; None stands for the ValueError of line 81.
max_image_width_of(options, width) ==
    CASE options.horizontal_alignment = "LEFT" -> Some(Times(options.x, width))
      [] options.horizontal_alignment = "RIGHT" ->
            Some(Times(Minus(Num(1), options.x), width))
      [] options.horizontal_alignment = "CENTER" ->
            Some(Min(Times(Times(Num(2), Minus(Num(1), options.x)), width),
                     Times(Times(Num(2), options.x), width)))
      [] OTHER -> None

\* Faulty variant: the signs of LEFT and RIGHT are exchanged.
alignment_offset_swapped(alignment, watermark_width) ==
    CASE alignment = "LEFT" -> Some(Over(watermark_width, Num(2)))
      [] alignment = "RIGHT" -> Some(Over(Neg(watermark_width), Num(2)))
      [] alignment = "CENTER" -> Some(Num(0))
      [] OTHER -> None

\* Faulty variant: an unknown alignment is taken as CENTER.
alignment_offset_lenient(alignment, watermark_width) ==
    CASE alignment = "LEFT" -> Some(Over(Neg(watermark_width), Num(2)))
      [] alignment = "RIGHT" -> Some(Over(watermark_width, Num(2)))
      [] OTHER -> Some(Num(0))

\* draw.py:100-112; None stands for the ValueError of line 110.
alignment_offset(alignment, watermark_width) ==
    CASE alignment = "LEFT" -> Some(Over(Neg(watermark_width), Num(2)))
      [] alignment = "RIGHT" -> Some(Over(watermark_width, Num(2)))
      [] alignment = "CENTER" -> Some(Num(0))
      [] OTHER -> None

\* draw.py:100-122, the part of draw_insert_watermark after the width of
\* the wm is known.
place_insert(wm, options, specific, width, height, rotation_matrix, watermark_width, image_width, image_height) ==
    LET offset == alignment_offset(specific.horizontal_alignment, watermark_width)
    IN  IF offset = None
        THEN Raise(wm, "ValueError")
        ELSE draw_one_watermark(wm,
                                Plus(Times(specific.x, width), Val(offset)),
                                Times(specific.y, height),
                                rotation_matrix, options, image_width, image_height)

draw_insert_watermark(wm, options, specific, width, height, rotation_matrix) ==
    LET max_image_height == max_image_height_of(specific, height)
    IN  IF options.text /= None
        THEN place_insert(wm, options, specific, width, height, rotation_matrix,
                          stringWidth(Val(options.text), options.text_font,
                                      options.text_size),
                          Num(0), Num(0))
        ELSE IF options.image /= None
        THEN LET max_image_width == max_image_width_of(specific, width)
             IN  IF max_image_width = None
                 THEN Raise(wm, "ValueError")
                 ELSE LET size == Val(options.image)
                          fitted == fit_image(size[1], size[2], Val(max_image_width),
                                              max_image_height, options.image_scale)
                      IN  place_insert(wm, options, specific, width, height,
                                       rotation_matrix, fitted[1], fitted[1], fitted[2])
        ELSE Raise(wm, "ValueError")

\* Faulty variant: the margin flag does not move the first index.
start_index_zero(specific) == 0

start_index_of(specific) == IF specific.margin THEN 1 ELSE 0

\* The locals of draw_grid_watermark that its loops read.
GridLocals(options, specific, width, height, rotation_matrix) ==
    LET horizontal_box_spacing == Over(width, Num(specific.horizontal_boxes))
        vertical_box_spacing == Over(height, Num(specific.vertical_boxes))
        fitted == IF options.image /= None
                  THEN fit_image(Val(options.image)[1], Val(options.image)[2],
                                 horizontal_box_spacing, vertical_box_spacing,
                                 options.image_scale)
                  ELSE <<Num(0), Num(0)>>
    IN  [options |-> options, specific |-> specific,
         rotation_matrix |-> rotation_matrix,
         horizontal_box_spacing |-> horizontal_box_spacing,
         vertical_box_spacing |-> vertical_box_spacing,
         start_index |-> start_index_of(specific),
         image_width |-> fitted[1], image_height |-> fitted[2]]

\* draw.py:156-172, the body of the loops.
grid_cell(wm, x_index, y_index, g) ==
    LET x0 == Times(Num(x_index), g.horizontal_box_spacing)
        y0 == Times(Num(y_index), g.vertical_box_spacing)
        x_base == IF g.specific.margin
                  THEN Minus(x0, Over(g.horizontal_box_spacing, Num(2)))
                  ELSE x0
        y_base == IF g.specific.margin
                  THEN Minus(y0, Over(g.vertical_box_spacing, Num(2)))
                  ELSE y0
    IN  draw_one_watermark(wm, x_base, y_base, g.rotation_matrix, g.options,
                           g.image_width, g.image_height)

\* draw.py:155, for y_index in range(start_index, vertical_boxes + 1)
RECURSIVE grid_y_loop(_, _, _, _)
grid_y_loop(wm, x_index, y_index, g) ==
    IF y_index >= g.specific.vertical_boxes + 1
    THEN wm
    ELSE grid_y_loop(grid_cell(wm, x_index, y_index, g), x_index, y_index + 1, g)

\* draw.py:154, for x_index in range(start_index, horizontal_boxes + 1)
RECURSIVE grid_x_loop(_, _, _)
grid_x_loop(wm, x_index, g) ==
    IF x_index >= g.specific.horizontal_boxes + 1
    THEN wm
    ELSE grid_x_loop(grid_y_loop(wm, x_index, g.start_index, g), x_index + 1, g)

draw_grid_watermark(wm, options, specific, width, height, rotation_matrix) ==
    LET g == GridLocals(options, specific, width, height, rotation_matrix)
    IN  grid_x_loop(wm, g.start_index, g)

\* ------------------------------------------------------------ fonts
CJK_FIRST == 19968
CJK_LAST == 40959

is_chinese(text) ==
    \E i \in 1..Len(text) : CJK_FIRST <= text[i] /\ text[i] <= CJK_LAST

\* str.find: the lowest 0-based index where sub occurs in s, else -1.
find(s, sub) ==
    LET hits == {i \in 0..(Len(s) - Len(sub)) : SubSeq(s, i + 1, i + Len(sub)) = sub}
    IN  IF hits = {} THEN -1 ELSE CHOOSE i \in hits : \A j \in hits : i <= j

Hei == <<"H", "e", "i">>
Helvetica == <<"H", "e", "l", "v", "e", "t", "i", "c", "a">>
SimHei == <<"S", "i", "m", "H", "e", "i">>
HeitiSC == <<"H", "e", "i", "t", "i", " ", "S", "C">>
SongtiSC == <<"S", "o", "n", "g", "t", "i", " ", "S", "C">>

\* list('Microsoft YaHei'): the characters of the string, one per entry.
MicrosoftYaHeiList ==
    << <<"M">>, <<"i">>, <<"c">>, <<"r">>, <<"o">>, <<"s">>, <<"o">>, <<"f">>,
       <<"t">>, <<" ">>, <<"Y">>, <<"a">>, <<"H">>, <<"e">>, <<"i">> >>

Range(seq) == {seq[i] : i \in 1..Len(seq)}

\* draw.py:196-198; system.installed is what get_all_zh_font() returns.
zh_fonts_of(sys) ==
    IF "Windows" /= sys.platform THEN sys.installed ELSE MicrosoftYaHeiList

\* draw.py:203-208, the loop over zh_fonts from entry i on, text_font being
\* the font assigned so far.
RECURSIVE pick_font(_, _, _)
pick_font(zh_fonts, i, text_font) ==
    IF i > Len(zh_fonts)
    THEN text_font
    ELSE IF find(zh_fonts[i], Hei) > 0
         THEN zh_fonts[i]
         ELSE pick_font(zh_fonts, i + 1, zh_fonts[1])

\* draw.py:192-213: the font draw_watermarks leaves in
\* drawing_options.text_font, the fonts it registers and what it prints.
chinese_font(options, sys) ==
    IF options.text /= None /\ is_chinese(Val(options.text))
    THEN LET zh_fonts == zh_fonts_of(sys)
         IN  IF Len(zh_fonts) > 0
             THEN LET f == IF options.text_font \notin Range(zh_fonts)
                           THEN pick_font(zh_fonts, 1, options.text_font)
                           ELSE options.text_font
                  IN  [text_font |-> f, registered |-> {f}, printed |-> <<>>]
             ELSE [text_font |-> options.text_font, registered |-> {},
                   printed |-> <<"Please install Chinese font.">>]
    ELSE [text_font |-> options.text_font, registered |-> {}, printed |-> <<>>]

draw_watermarks(file_name, width, height, options, specific, sys) ==
    LET wm0 == Canvas(file_name, width, height)
        rotation_matrix == rotation_matrix_of(options.angle)
        fonts == chinese_font(options, sys)
        options1 == [options EXCEPT !.text_font = fonts.text_font]
        wm1 == [wm0 EXCEPT !.registered = fonts.registered,
                           !.printed = fonts.printed,
                           !.font = Some(<<options1.text_font, options1.text_size>>),
                           !.rotation = Some(options1.angle)]
        wm2 == IF specific.kind = "InsertOptions"
               THEN draw_insert_watermark(wm1, options1, specific, width, height,
                                          rotation_matrix)
               ELSE IF specific.kind = "GridOptions"
               THEN draw_grid_watermark(wm1, options1, specific, width, height,
                                        rotation_matrix)
               ELSE Raise(wm1, "NotImplementedError")
    IN  IF wm2.raised = "none" THEN [wm2 EXCEPT !.saved = TRUE] ELSE wm2

\* ------------------------------------------------------------ inputs
Angles == {0, 90, 180, 270}
Fractions == {Rat(k, MaxDen) : k \in 1..(MaxDen - 1)}
ImageSizes == {<<Num(w), Num(h)>> : w \in 1..MaxImage, h \in 1..MaxImage}
Scales == {Rat(1, 2), Num(1), Num(2)}
FitScales == Scales \cup {Num(0), Num(-1)}
DrawPageSizes == {<<Num(4), Num(4)>>, <<Num(6), Num(4)>>}

LatinText == <<65>>
ChineseText == <<20013>>
FontTexts == {None, Some(<<>>), Some(LatinText), Some(ChineseText),
              Some(<<65, 20013>>), Some(<<19967>>), Some(<<19968>>),
              Some(<<40959>>), Some(<<40960>>)}

FontNames == {SimHei, HeitiSC, SongtiSC}
FontLists ==
    UNION {{f \in [1..n -> FontNames] : \A i, j \in 1..n : f[i] = f[j] => i = j}
           : n \in 0..MaxFonts}
Systems == [platform : {"Linux", "Windows"}, installed : FontLists]
DefaultSystem == [platform |-> "Linux", installed |-> <<>>]

InsertOptionsSet ==
    [kind : {"InsertOptions"}, x : Fractions, y : Fractions,
     horizontal_alignment : Alignments \cup {"JUSTIFY"}]
GridOptionsSet ==
    [kind : {"GridOptions"}, horizontal_boxes : 1..MaxBoxes,
     vertical_boxes : 1..MaxBoxes, margin : BOOLEAN]
OtherOptions == [kind |-> "dict"]

Options(text, image, scale, angle, font) ==
    [text |-> text, image |-> image, image_scale |-> scale, angle |-> angle,
     text_font |-> font, text_size |-> 2]

\* Configurations that vary the layout, and configurations that vary the
\* text, the configured font and the installed fonts.
LayoutConfigs ==
    {[options |-> Options(t, i, s, a, Helvetica), specific |-> sp, size |-> ps,
      system |-> DefaultSystem] :
        t \in {None, Some(LatinText)}, i \in {None} \cup {Some(z) : z \in ImageSizes},
        s \in Scales, a \in Angles, ps \in DrawPageSizes,
        sp \in InsertOptionsSet \cup GridOptionsSet \cup {OtherOptions}}

FontConfigs ==
    {[options |-> Options(t, None, Num(1), 0, f),
      specific |-> [kind |-> "GridOptions", horizontal_boxes |-> 1,
                    vertical_boxes |-> 1, margin |-> TRUE],
      size |-> <<Num(4), Num(4)>>, system |-> sys] :
        t \in FontTexts, f \in {Helvetica, SimHei, HeitiSC}, sys \in Systems}

\* ------------------------------------------------------------ files
Inputs == {"a.pdf", "b.pdf"}
OutputNames == <<"out1.pdf", "out2.pdf", "out3.pdf", "out4.pdf">>
TempName == "tmp.pdf"
PageBoxes == {<<4, 4>>, <<6, 4>>}

Page(box, number) ==
    [number |-> number, width |-> box[1], height |-> box[2], merged |-> <<>>]
PDFs ==
    UNION {{[i \in 1..n |-> Page(boxes[i], i)] : boxes \in [1..n -> PageBoxes]}
           : n \in 1..MaxPages}
FilesOptions ==
    UNION {{[k \in 1..n |-> <<ins[k], OutputNames[k]>>] : ins \in [1..n -> Inputs]}
           : n \in 0..MaxFiles}

HandlerConfigs ==
    {[options |-> Options(Some(LatinText), Some(<<Num(2), Num(3)>>), Num(1), 90,
                          Helvetica),
      specific |-> sp] :
        sp \in {[kind |-> "GridOptions", horizontal_boxes |-> 2,
                 vertical_boxes |-> 1, margin |-> FALSE],
                [kind |-> "InsertOptions", x |-> Rat(1, 2), y |-> Rat(1, 2),
                 horizontal_alignment |-> "LEFT"],
                [kind |-> "InsertOptions", x |-> Rat(1, 2), y |-> Rat(1, 2),
                 horizontal_alignment |-> "JUSTIFY"]}}

NoCanvas == Canvas("", Num(0), Num(0))

\* ------------------------------------------------------------ handler.py
IdleHandler ==
    /\ files_options = <<>>
    /\ file_index = 1
    /\ disk = [f \in Inputs |-> <<>>]
    /\ pdf_to_transform = <<>>
    /\ page_index = 1
    /\ pdf_writer = <<>>
    /\ rendered = 0
    /\ written = <<>>

Init ==
    /\ pc = "files"
    /\ files_options \in FilesOptions
    /\ file_index = 1
    /\ \E pdfs \in [Inputs -> PDFs] :
          disk = [f \in Inputs \cup Range(OutputNames) |->
                     IF f \in Inputs THEN pdfs[f] ELSE <<>>]
    /\ pdf_to_transform = <<>>
    /\ page_width = Num(0)
    /\ page_height = Num(0)
    /\ page_index = 1
    /\ pdf_writer = <<>>
    /\ rendered = 0
    /\ written = <<>>
    /\ \E c \in HandlerConfigs :
          /\ drawing_options = c.options
          /\ specific_options = c.specific
    /\ system = DefaultSystem
    /\ watermark = NoCanvas
    /\ call = None
    /\ ret = None

\* add_watermark_from_options takes the next pair and add_watermark_to_pdf
\* reads its input and the media box of its first page.
OpenInput ==
    /\ pc = "files"
    /\ file_index <= Len(files_options)
    /\ LET pdf == disk[files_options[file_index][1]]
       IN  /\ pdf_to_transform' = pdf
           /\ page_width' = Num(pdf[1].width)
           /\ page_height' = Num(pdf[1].height)
    /\ rendered' = 0
    /\ pc' = "render"
    /\ UNCHANGED <<files_options, file_index, disk, page_index, pdf_writer, written,
                   drawing_options, specific_options, system, watermark, call, ret>>

\* The watermark is drawn into the temporary file, which is read back, and
\* the writer is created.
Render ==
    /\ pc = "render"
    /\ LET wm == draw_watermarks(TempName, page_width, page_height, drawing_options,
                                 specific_options, system)
       IN  /\ watermark' = wm
           /\ pc' = IF wm.raised = "none" THEN "merge" ELSE "raised"
    /\ drawing_options' =
          [drawing_options EXCEPT
              !.text_font = chinese_font(drawing_options, system).text_font]
    /\ rendered' = rendered + 1
    /\ page_index' = 1
    /\ pdf_writer' = <<>>
    /\ UNCHANGED <<files_options, file_index, disk, pdf_to_transform, page_width,
                   page_height, written, specific_options, system, call, ret>>

\* Faulty variant: the watermark is merged twice onto the page.
MergePageTwice ==
    /\ pc = "merge"
    /\ page_index <= Len(pdf_to_transform)
    /\ LET page == [pdf_to_transform[page_index] EXCEPT
                       !.merged = Append(Append(@, watermark), watermark)]
       IN  /\ pdf_to_transform' = [pdf_to_transform EXCEPT ![page_index] = page]
           /\ pdf_writer' = Append(pdf_writer, page)
    /\ page_index' = page_index + 1
    /\ UNCHANGED <<pc, files_options, file_index, disk, page_width, page_height,
                   rendered, written, drawing_options, specific_options, system,
                   watermark, call, ret>>

\* One turn of the loop over the pages of the input.
MergePage ==
    /\ pc = "merge"
    /\ page_index <= Len(pdf_to_transform)
    /\ LET page == [pdf_to_transform[page_index] EXCEPT
                       !.merged = Append(@, watermark)]
       IN  /\ pdf_to_transform' = [pdf_to_transform EXCEPT ![page_index] = page]
           /\ pdf_writer' = Append(pdf_writer, page)
    /\ page_index' = page_index + 1
    /\ UNCHANGED <<pc, files_options, file_index, disk, page_width, page_height,
                   rendered, written, drawing_options, specific_options, system,
                   watermark, call, ret>>

\* The loop over the pages is over: the writer is written to the output and
\* add_watermark_from_options moves to the next pair.
WriteOutput ==
    /\ pc = "merge"
    /\ page_index > Len(pdf_to_transform)
    /\ disk' = [disk EXCEPT ![files_options[file_index][2]] = pdf_writer]
    /\ written' = Append(written, files_options[file_index][2])
    /\ file_index' = file_index + 1
    /\ pc' = "files"
    /\ UNCHANGED <<files_options, pdf_to_transform, page_width, page_height,
                   page_index, pdf_writer, rendered, drawing_options,
                   specific_options, system, watermark, call, ret>>

\* The loop over files_options is over.
Return ==
    /\ pc = "files"
    /\ file_index > Len(files_options)
    /\ pc' = "done"
    /\ UNCHANGED <<files_options, file_index, disk, pdf_to_transform, page_width,
                   page_height, page_index, pdf_writer, rendered, written,
                   drawing_options, specific_options, system, watermark, call, ret>>

Next == OpenInput \/ Render \/ MergePage \/ WriteOutput \/ Return

Spec == Init /\ [][Next]_vars

\* ------------------------------------------------------------ direct calls
\* draw_watermarks called with a page size and a configuration; call keeps
\* the drawing options as they were passed.
InitDraw ==
    /\ pc = "call"
    /\ IdleHandler
    /\ \E c \in LayoutConfigs \cup FontConfigs :
          /\ drawing_options = c.options
          /\ specific_options = c.specific
          /\ page_width = c.size[1]
          /\ page_height = c.size[2]
          /\ system = c.system
          /\ call = c.options
    /\ watermark = NoCanvas
    /\ ret = None

DrawWatermarks ==
    /\ pc = "call"
    /\ watermark' = draw_watermarks("watermark.pdf", page_width, page_height,
                                    drawing_options, specific_options, system)
    /\ drawing_options' =
          [drawing_options EXCEPT
              !.text_font = chinese_font(drawing_options, system).text_font]
    /\ pc' = "returned"
    /\ UNCHANGED <<files_options, file_index, disk, pdf_to_transform, page_width,
                   page_height, page_index, pdf_writer, rendered, written,
                   specific_options, system, call, ret>>

SpecDraw == InitDraw /\ [][DrawWatermarks]_vars

IdleDraw ==
    /\ IdleHandler
    /\ page_width = Num(0)
    /\ page_height = Num(0)
    /\ drawing_options = Options(None, None, Num(1), 0, Helvetica)
    /\ specific_options = OtherOptions
    /\ system = DefaultSystem
    /\ watermark = NoCanvas

\* fit_image called with an image size, a box and a scale.
InitFit ==
    /\ pc = "call"
    /\ IdleDraw
    /\ call \in [image_width : {Num(n) : n \in 1..MaxImage},
                 image_height : {Num(n) : n \in 1..MaxImage},
                 max_image_width : {Num(n) : n \in 1..MaxBox},
                 max_image_height : {Num(n) : n \in 1..MaxBox},
                 scale : FitScales]
    /\ ret = None

FitImage ==
    /\ pc = "call"
    /\ ret' = Some(fit_image(call.image_width, call.image_height,
                             call.max_image_width, call.max_image_height, call.scale))
    /\ pc' = "returned"
    /\ UNCHANGED <<files_options, file_index, disk, pdf_to_transform, page_width,
                   page_height, page_index, pdf_writer, rendered, written,
                   drawing_options, specific_options, system, watermark, call>>

SpecFit == InitFit /\ [][FitImage]_vars

\* change_base called with a point and the matrix draw_watermarks builds
\* for an angle.
InitBase ==
    /\ pc = "call"
    /\ IdleDraw
    /\ call \in [x : {Num(n) : n \in (-MaxCoord)..MaxCoord},
                 y : {Num(n) : n \in (-MaxCoord)..MaxCoord},
                 angle : Angles]
    /\ ret = None

ChangeBase ==
    /\ pc = "call"
    /\ ret' = Some(change_base(call.x, call.y, rotation_matrix_of(call.angle)))
    /\ pc' = "returned"
    /\ UNCHANGED <<files_options, file_index, disk, pdf_to_transform, page_width,
                   page_height, page_index, pdf_writer, rendered, written,
                   drawing_options, specific_options, system, watermark, call>>

SpecBase == InitBase /\ [][ChangeBase]_vars

\* ------------------------------------------------------------ properties
Returned == pc = "returned"
IsInsert == specific_options.kind = "InsertOptions"
IsGrid == specific_options.kind = "GridOptions"
HasText == drawing_options.text /= None
HasImage == drawing_options.image /= None
ValidAlignment == specific_options.horizontal_alignment \in Alignments
Half(a) == Over(a, Num(2))
Inside(lo, a, hi) == LessEq(lo, a) /\ LessEq(a, hi)

\* C1: a grid layout of h x v boxes on a W x H page calls draw_one_watermark
\* once per iterated cell: without margin (h+1)*(v+1) times, at the points
\* (i*W/h, j*H/v), i in 0..h, j in 0..v; with margin h*v times, at
\* ((i-1/2)*W/h, (j-1/2)*H/v), i in 1..h, j in 1..v, each strictly inside
\* the page.
C1_GridCells ==
    (Returned /\ IsGrid) =>
        LET h == specific_options.horizontal_boxes
            v == specific_options.vertical_boxes
            W == page_width
            H == page_height
            plain == {<<Over(Times(Num(i), W), Num(h)), Over(Times(Num(j), H), Num(v))>>
                        : i \in 0..h, j \in 0..v}
            shifted == {<<Over(Times(Num(2 * i - 1), W), Num(2 * h)),
                          Over(Times(Num(2 * j - 1), H), Num(2 * v))>>
                          : i \in 1..h, j \in 1..v}
            points == watermark.points
        IN  IF specific_options.margin
            THEN /\ Len(points) = h * v
                 /\ Range(points) = shifted
                 /\ Cardinality(shifted) = h * v
                 /\ \A q \in Range(points) :
                       /\ Less(Num(0), q[1]) /\ Less(q[1], W)
                       /\ Less(Num(0), q[2]) /\ Less(q[2], H)
            ELSE /\ Len(points) = (h + 1) * (v + 1)
                 /\ Range(points) = plain
                 /\ Cardinality(plain) = (h + 1) * (v + 1)

C1_Witness ==
    /\ Returned /\ IsGrid
    /\ specific_options.margin
    /\ specific_options.horizontal_boxes = 2
    /\ specific_options.vertical_boxes = 2
    /\ Len(watermark.points) = 4

\* C2: the size fit_image computes before applying the scale s has the aspect
\* ratio of the image, fits the box, is never larger than the image and is
\* the image's own size when the image fits the box; the returned size is
\* that size times s.
C2_FitImage ==
    Returned =>
        LET w == call.image_width
            h == call.image_height
            s == call.scale
            r == Val(ret)
        IN  IF s = Num(0)
            THEN r = <<Num(0), Num(0)>>
            ELSE LET fw == Over(r[1], s)
                     fh == Over(r[2], s)
                 IN  /\ Times(fw, h) = Times(fh, w)
                     /\ LessEq(fw, call.max_image_width)
                     /\ LessEq(fh, call.max_image_height)
                     /\ LessEq(fw, w) /\ LessEq(fh, h)
                     /\ (LessEq(w, call.max_image_width) /\ LessEq(h, call.max_image_height))
                            => (fw = w /\ fh = h)
                     /\ Less(Num(0), fw) /\ Less(Num(0), fh)

C2_Witness ==
    /\ Returned
    /\ call = [image_width |-> Num(4), image_height |-> Num(4),
               max_image_width |-> Num(2), max_image_height |-> Num(1),
               scale |-> Num(2)]
    /\ ret = Some(<<Num(2), Num(2)>>)

\* C3: change_base(x, y, R) is R^T [x, y]^T for the matrix R draw_watermarks
\* builds: (cos*x + sin*y, -sin*x + cos*y); applying R to it gives (x, y)
\* back, and at angle 0 it is (x, y).
C3_ChangeBase ==
    Returned =>
        LET c == Cos(call.angle)
            s == Sin(call.angle)
            q == Val(ret)
        IN  /\ q[1] = Plus(Times(c, call.x), Times(s, call.y))
            /\ q[2] = Plus(Times(Neg(s), call.x), Times(c, call.y))
            /\ MatVec(rotation_matrix_of(call.angle), q) = <<call.x, call.y>>
            /\ call.angle = 0 => q = <<call.x, call.y>>

C3_Witness ==
    /\ Returned
    /\ call = [x |-> Num(1), y |-> Num(2), angle |-> 90]
    /\ ret = Some(<<Num(2), Num(-1)>>)

\* The width the insert layout aligns by: the string width of the text when
\* text is set, otherwise the width the image is drawn with.
RenderedWidth ==
    IF HasText
    THEN stringWidth(Val(drawing_options.text), drawing_options.text_font,
                     drawing_options.text_size)
    ELSE watermark.calls[1].width

InsertOffset ==
    Minus(watermark.points[1][1], Times(specific_options.x, page_width))

InsertCase == Returned /\ IsInsert /\ ValidAlignment /\ (HasText \/ HasImage)

\* C4 as stated: an insert layout with a valid alignment draws one instance,
\* at (x*W + offset, y*H), the offset being plus or minus half the rendered
\* width of the watermark.
C4_AsStated ==
    InsertCase =>
        /\ Len(watermark.points) = 1
        /\ watermark.points[1][2] = Times(specific_options.y, page_height)
        /\ InsertOffset \in {Half(RenderedWidth), Neg(Half(RenderedWidth))}

\* C4, amended: an insert layout with a valid alignment and a text or an
\* image draws one instance, at (x*W + offset, y*H), the offset being minus
\* half the rendered width for LEFT, plus half of it for RIGHT and 0 for
\* CENTER.
C4_InsertAnchor ==
    InsertCase =>
        /\ Len(watermark.points) = 1
        /\ watermark.points[1][2] = Times(specific_options.y, page_height)
        /\ specific_options.horizontal_alignment = "LEFT"
              => InsertOffset = Neg(Half(RenderedWidth))
        /\ specific_options.horizontal_alignment = "RIGHT"
              => InsertOffset = Half(RenderedWidth)
        /\ specific_options.horizontal_alignment = "CENTER"
              => InsertOffset = Num(0)

C4_Witness ==
    /\ InsertCase
    /\ specific_options.horizontal_alignment = "CENTER"
    /\ HasText
    /\ Less(Num(0), RenderedWidth)
    /\ watermark.points = <<<<Times(specific_options.x, page_width),
                              Times(specific_options.y, page_height)>>>>

\* C5: add_watermark_to_pdf renders the watermark once, merges it onto every
\* page of the input exactly once and writes an output with the pages of the
\* input in their order; add_watermark_from_options does so for every pair,
\* in order, one output per pair.
C5_Composition ==
    /\ pc = "merge" => (rendered = 1 /\ watermark.saved)
    /\ Len(written) = file_index - 1
    /\ \A k \in 1..Len(written) :
          LET input == disk[files_options[k][1]]
              output == disk[files_options[k][2]]
          IN  /\ written[k] = files_options[k][2]
              /\ Len(output) = Len(input)
              /\ \A i \in 1..Len(output) :
                    /\ output[i].number = input[i].number
                    /\ output[i].width = input[i].width
                    /\ output[i].height = input[i].height
                    /\ Len(output[i].merged) = 1
                    /\ output[i].merged[1].saved
                    /\ output[i].merged[1].file_name = TempName
    /\ pc = "done" => Len(written) = Len(files_options)

C5_Witness ==
    /\ pc = "done"
    /\ Len(files_options) = 2
    /\ written = <<"out1.pdf", "out2.pdf">>
    /\ Len(disk["out2.pdf"]) = 2

\* C6: the watermark canvas has the width and height of the media box of
\* every page it is merged onto.
C6_CanvasMatchesPage ==
    \A i \in 1..Len(pdf_writer) :
        \A k \in 1..Len(pdf_writer[i].merged) :
            pdf_writer[i].merged[k].pagesize =
                <<Num(pdf_writer[i].width), Num(pdf_writer[i].height)>>

\* C7: the Chinese font path is taken exactly when the text has a character
\* in U+4E00..U+9FFF.  With a non-empty font list the configured font is kept
\* if listed, else replaced by the first entry containing 'Hei', else by the
\* first entry, and that font is registered and set; with an empty list a
\* warning is printed, nothing is registered and the font is unchanged.
\* Without such a character the font is unchanged.
C7_FontFallback ==
    Returned =>
        LET configured == call.text_font
            chinese == /\ call.text /= None
                       /\ \E i \in 1..Len(Val(call.text)) :
                             Val(call.text)[i] \in 19968..40959
            zh == zh_fonts_of(system)
            heis == {i \in 1..Len(zh) : find(zh[i], Hei) >= 0}
            expected == IF configured \in Range(zh) THEN configured
                        ELSE IF heis /= {}
                             THEN zh[CHOOSE i \in heis : \A j \in heis : i <= j]
                             ELSE zh[1]
        IN  /\ (watermark.registered /= {} \/ watermark.printed /= <<>>) <=> chinese
            /\ (chinese /\ zh /= <<>>) =>
                  /\ drawing_options.text_font = expected
                  /\ watermark.registered = {expected}
                  /\ watermark.font = Some(<<expected, drawing_options.text_size>>)
            /\ (chinese /\ zh = <<>>) =>
                  /\ watermark.printed = <<"Please install Chinese font.">>
                  /\ watermark.registered = {}
                  /\ drawing_options.text_font = configured
            /\ ~chinese => drawing_options.text_font = configured

\* C8: draw_watermarks raises ValueError for an insert layout with an invalid
\* alignment (text or image set) and for an insert layout with neither text
\* nor image, and NotImplementedError for options that are neither insert nor
\* grid options; in each case nothing was drawn and the canvas is not saved.
C8_Rejected ==
    Returned =>
        /\ (IsInsert /\ ~ValidAlignment /\ (HasText \/ HasImage))
              => watermark.raised = "ValueError"
        /\ (IsInsert /\ ~HasText /\ ~HasImage) => watermark.raised = "ValueError"
        /\ (~IsInsert /\ ~IsGrid) => watermark.raised = "NotImplementedError"
        /\ watermark.raised /= "none" => (watermark.calls = <<>> /\ ~watermark.saved)

C8_Witness ==
    /\ Returned /\ IsInsert /\ HasText
    /\ specific_options.horizontal_alignment = "JUSTIFY"
    /\ watermark.raised = "ValueError"
    /\ watermark.calls = <<>>
    /\ ~watermark.saved

\* C9: in the insert layout an image without text, scaled by at most 1, is
\* drawn in a rectangle around the anchor that lies within the page.
C9_ImageOnPage ==
    (InsertCase /\ ~HasText /\ LessEq(drawing_options.image_scale, Num(1))) =>
        LET anchor == watermark.points[1]
            w == watermark.calls[1].width
            h == watermark.calls[1].height
        IN  /\ Inside(Num(0), Minus(anchor[1], Half(w)), page_width)
            /\ Inside(Num(0), Plus(anchor[1], Half(w)), page_width)
            /\ Inside(Num(0), Minus(anchor[2], Half(h)), page_height)
            /\ Inside(Num(0), Plus(anchor[2], Half(h)), page_height)

====
